---- MODULE Spec2Model ----
(***************************************************************************)
(* A model of generate_srt.py: the timestamp codec, the output slot        *)
(* allocator, the frame rate prober, the subtitle writer and the pipeline  *)
(* of main().  Text (file names, timestamps, probe output) is a sequence   *)
(* of one-character strings, so that formatting and parsing are computed   *)
(* and not assumed.                                                        *)
(***************************************************************************)
EXTENDS Integers, Sequences, FiniteSets, TLC

(***************************************************************************)
(* Bounds of the model.                                                    *)
(***************************************************************************)
\* sub-millisecond steps per millisecond at which input offsets are drawn
SubMs == 10
\* largest whole-second part of an input offset
MaxSec == 3725
\* number of consecutive runs of the allocator against one base directory
MaxCalls == 3

(***************************************************************************)
(* Program constants.                                                      *)
(***************************************************************************)
\* (seconds - floor(seconds)) * 1000
MsPerSec == 1000
\* round(fps, 3): the frame rate is kept in units of 10^-3
FpsDigits == 3
\* return 24.0
FallbackFps == 24

(***************************************************************************)
(* Characters and numbers.                                                 *)
(***************************************************************************)
DigitSeq == <<"0", "1", "2", "3", "4", "5", "6", "7", "8", "9">>

Digits == {DigitSeq[i] : i \in 1..10}

NL == "\n"

Whitespace == {" ", NL}

DigitChar(d) == DigitSeq[d + 1]

DigitVal(c) == (CHOOSE i \in 1..10 : DigitSeq[i] = c) - 1

RECURSIVE Pow10(_)
Pow10(k) == IF k = 0 THEN 1 ELSE 10 * Pow10(k - 1)

RECURSIVE Decimal(_)
\* str(n) of an integer n >= 0
Decimal(n) == IF n < 10 THEN <<DigitChar(n)>>
              ELSE Append(Decimal(n \div 10), DigitChar(n % 10))

RECURSIVE ZeroFill(_, _)
ZeroFill(s, w) == IF Len(s) >= w THEN s ELSE ZeroFill(<<"0">> \o s, w)

\* f"{n:0wd}": at least w digits, never cut
Pad(n, w) == ZeroFill(Decimal(n), w)

RECURSIVE DigitsValue(_)
\* value of a non-empty sequence of digits
DigitsValue(s) == IF Len(s) = 0 THEN 0
                  ELSE 10 * DigitsValue(SubSeq(s, 1, Len(s) - 1)) + DigitVal(s[Len(s)])

AllDigits(s) == \A i \in 1..Len(s) : s[i] \in Digits

RECURSIVE LStrip(_)
LStrip(s) == IF Len(s) > 0 /\ s[1] \in Whitespace THEN LStrip(Tail(s)) ELSE s

RECURSIVE RStrip(_)
RStrip(s) == IF Len(s) > 0 /\ s[Len(s)] \in Whitespace
             THEN RStrip(SubSeq(s, 1, Len(s) - 1)) ELSE s

\* str.strip()
Strip(s) == LStrip(RStrip(s))

\* round() of the quotient n / d (n >= 0, d > 0) to an integer; on an exact
\* tie the binary float that carries the quotient lies on either side, so
\* the direction is an input (tie = 1: up, tie = 0: down)
RoundDiv(n, d, tie) ==
    LET q == n \div d
        r == n % d
    IN  IF 2 * r < d THEN q
        ELSE IF 2 * r > d THEN q + 1
        ELSE q + tie

(***************************************************************************)
(* format_timestamp.  An offset is an integer number of ticks, one tick    *)
(* being 1 / (MsPerSec * SubMs) second.                                    *)
(***************************************************************************)
TicksPerSec == MsPerSec * SubMs

FormatTimestamp(seconds, tie) ==
    LET s == IF seconds < 0 THEN 0 ELSE seconds
        whole == s \div TicksPerSec
        ms == RoundDiv((s - whole * TicksPerSec) * MsPerSec, TicksPerSec, tie)
        total == whole
        hours == total \div 3600
        minutes == (total % 3600) \div 60
        secs == total % 60
    IN  Pad(hours, 2) \o <<":">> \o Pad(minutes, 2) \o <<":">> \o Pad(secs, 2)
            \o <<",">> \o Pad(ms, 3)

(***************************************************************************)
(* write_srt.  A segment is a function from some of the keys "start",      *)
(* "end", "text" to their values.                                          *)
(***************************************************************************)
\* dict.get(key, default)
Get(seg, key, default) == IF key \in DOMAIN seg THEN seg[key] ELSE default

Cue(i, seg, tie) ==
    Decimal(i) \o <<NL>>
        \o FormatTimestamp(Get(seg, "start", 0), tie) \o <<" --> ">>
        \o FormatTimestamp(Get(seg, "end", 0), tie) \o <<NL>>
        \o Strip(Get(seg, "text", <<>>)) \o <<NL, NL>>

RECURSIVE CuesUpTo(_, _, _)
CuesUpTo(segments, n, tie) ==
    IF n = 0 THEN <<>>
    ELSE CuesUpTo(segments, n - 1, tie) \o Cue(n, segments[n], tie)

\* the text that write_srt leaves in the file at out_path
WriteSrt(segments, tie) == CuesUpTo(segments, Len(segments), tie)

(***************************************************************************)
(* Paths.  A path is written relative to the working directory, so two     *)
(* paths name the same file exactly when they are equal.                   *)
(***************************************************************************)
Sep == "/"

\* os.path.join
Join(dir, name) == IF dir = <<>> THEN name ELSE dir \o <<Sep>> \o name

RECURSIVE Basename(_)
\* os.path.basename
Basename(p) == IF Len(p) = 0 THEN <<>>
               ELSE IF p[Len(p)] = Sep THEN <<>>
               ELSE Append(Basename(SubSeq(p, 1, Len(p) - 1)), p[Len(p)])

\* os.path.dirname
Dirname(p) == LET n == Len(p) - Len(Basename(p))
              IN  IF n <= 1 THEN <<>> ELSE SubSeq(p, 1, n - 1)

OutputBase == <<"output">>

FramerateTxt == <<"framerate.txt">>

SubtitlesSrt == <<"subtitles.srt">>

SubtitlesFcpxml == <<"subtitles.fcpxml">>

\* a partial function with p mapped to v
Put(f, p, v) == [q \in DOMAIN f \cup {p} |-> IF q = p THEN v ELSE f[q]]

\* a partial function without p
Drop(f, p) == [q \in DOMAIN f \ {p} |-> f[q]]

\* shutil.move of a file onto a path that is free or holds a file
MoveFile(f, src, dst) == Drop(Put(f, dst, f[src]), src)

(***************************************************************************)
(* is_youtube_url: the substring test, on text whose host names are        *)
(* single pieces.                                                          *)
(***************************************************************************)
IsYoutubeUrl(s) ==
    (\E i \in 1..Len(s) : s[i] = "youtube.com") \/ (\E i \in 1..Len(s) : s[i] = "youtu.be")

(***************************************************************************)
(* next_output_folder.  The listing of the base directory is a function    *)
(* from entry names to "dir" or "file".                                    *)
(***************************************************************************)
\* re.match(r"^\d{3}$", d): "$" also matches before a final newline
ReMatch3(d) ==
    \/ Len(d) = 3 /\ AllDigits(d)
    \/ Len(d) = 4 /\ AllDigits(SubSeq(d, 1, 3)) /\ d[4] = NL

\* int(d), for a name that matched
IntOf(d) == DigitsValue(Strip(d))

Existing(listing) == {d \in listing : ReMatch3(d)}

Nums(listing) == {IntOf(d) : d \in Existing(listing)}

SetMax(S) == CHOOSE m \in S : \A x \in S : x <= m

NextNum(listing) == IF Nums(listing) = {} THEN 1 ELSE SetMax(Nums(listing)) + 1

FolderName(listing) == Pad(NextNum(listing), 3)

\* os.makedirs(out_path) without exist_ok: raises when out_path is there at all
MakedirsRaisesIfThere(ents, name) == name \in DOMAIN ents

\* os.makedirs(out_path, exist_ok=True) raises when out_path is a file
MakedirsRaises(ents, name) == name \in DOMAIN ents /\ ents[name] = "file"

Makedirs(ents, name) == Put(ents, name, "dir")

(***************************************************************************)
(* detect_fps.  A frame rate is an integer number of 10^-FpsDigits.  The   *)
(* probe either cannot be started, exits with an error, or prints text.    *)
(***************************************************************************)
FpsUnit == Pow10(FpsDigits)

Contains(s, c) == \E i \in 1..Len(s) : s[i] = c

RECURSIVE Split(_, _)
\* str.split(sep)
Split(s, sep) ==
    IF ~Contains(s, sep) THEN <<s>>
    ELSE LET i == CHOOSE k \in 1..Len(s) : s[k] = sep /\ \A j \in 1..(k - 1) : s[j] # sep
         IN  <<SubSeq(s, 1, i - 1)>> \o Split(SubSeq(s, i + 1, Len(s)), sep)

\* float(s) accepts s: blanks around an unsigned decimal with at most one point
FloatOk(s) ==
    LET t == Strip(s)
    IN  /\ \A i \in 1..Len(t) : t[i] \in Digits \cup {"."}
        /\ Cardinality({i \in 1..Len(t) : t[i] = "."}) <= 1
        /\ \E i \in 1..Len(t) : t[i] \in Digits

\* float(s) as the fraction FloatNum(s) / FloatDen(s)
FloatNum(s) ==
    LET t == Strip(s)
    IN  DigitsValue(SelectSeq(t, LAMBDA c : c \in Digits))

FloatDen(s) ==
    LET t == Strip(s)
    IN  IF Contains(t, ".")
        THEN Pow10(Len(t) - (CHOOSE i \in 1..Len(t) : t[i] = "."))
        ELSE 1

Fallback == FallbackFps * FpsUnit

\* detect_fps cutting the quotient to 3 decimal places instead of rounding it
DetectFpsTruncates(outcome, tie) ==
    IF outcome.status # "ok" THEN Fallback
    ELSE LET output == Strip(outcome.out)
             parts == Split(output, Sep)
         IN  IF Contains(output, Sep)
             THEN IF Len(parts) # 2 THEN Fallback
                  ELSE IF ~FloatOk(parts[1]) \/ ~FloatOk(parts[2]) THEN Fallback
                  ELSE IF FloatNum(parts[2]) = 0 THEN Fallback
                  ELSE (FloatNum(parts[1]) * FloatDen(parts[2]) * FpsUnit)
                           \div (FloatDen(parts[1]) * FloatNum(parts[2]))
             ELSE IF ~FloatOk(output) THEN Fallback
                  ELSE (FloatNum(output) * FpsUnit) \div FloatDen(output)

\* the value detect_fps returns for a probe outcome
DetectFps(outcome, tie) ==
    IF outcome.status # "ok" THEN Fallback
    ELSE LET output == Strip(outcome.out)
             parts == Split(output, Sep)
         IN  IF Contains(output, Sep)
             THEN IF Len(parts) # 2 THEN Fallback
                  ELSE IF ~FloatOk(parts[1]) \/ ~FloatOk(parts[2]) THEN Fallback
                  ELSE IF FloatNum(parts[2]) = 0 THEN Fallback
                  ELSE RoundDiv(FloatNum(parts[1]) * FloatDen(parts[2]) * FpsUnit,
                                FloatDen(parts[1]) * FloatNum(parts[2]), tie)
             ELSE IF ~FloatOk(output) THEN Fallback
                  ELSE RoundDiv(FloatNum(output) * FpsUnit, FloatDen(output), tie)

RECURSIVE TrimZeros(_)
TrimZeros(s) == IF Len(s) > 1 /\ s[Len(s)] = "0"
                THEN TrimZeros(SubSeq(s, 1, Len(s) - 1)) ELSE s

\* str(fps) of the float fps
FloatStr(fps) ==
    Decimal(fps \div FpsUnit) \o <<".">> \o TrimZeros(Pad(fps % FpsUnit, FpsDigits))

\* str(int(fps))
IntStr(fps) == Decimal(fps \div FpsUnit)

(***************************************************************************)
(* State.                                                                  *)
(***************************************************************************)
VARIABLES
    pc,         \* position of main()
    env,        \* which of ffmpeg, ffprobe, yt_dlp are installed
    argInput,   \* args.input
    entries,    \* os.listdir("output"): entry name -> "dir" or "file"
    files,      \* the regular files: path -> text
    inputFile,  \* input_file
    outFolder,  \* out_folder
    probe,      \* what the ffprobe process did: its status and its output
    fps,        \* fps
    segments,   \* segments
    converted,  \* converted
    exitCode,   \* exit status of the process, -1 while it runs
    cause,      \* what ended the run before Done
    invoked,    \* command lines of the collaborators run so far
    wrote,      \* paths this run has written or moved a file to
    entries0,   \* entries when the run started
    files0,     \* files when the run started
    tsPc,       \* format_timestamp alone: "in" or "out"
    tsIn,       \* its argument, in ticks
    tsOut,      \* its result
    calls,      \* next_output_folder alone: what each call returned
    rpc,        \* two concurrent runs: position of each
    rnext,      \* next_num of each
    rslot,      \* out_folder of each
    rwrote      \* the paths each has written or moved a file to

mainVars == <<pc, env, argInput, inputFile, outFolder, probe, fps, segments, converted,
              exitCode, cause, invoked, wrote, entries0, files0>>

fsVars == <<entries, files>>

tsVars == <<tsPc, tsIn, tsOut>>

raceVars == <<rpc, rnext, rslot, rwrote>>

vars == <<mainVars, fsVars, tsVars, calls, raceVars>>

EmptyMap == [x \in {} |-> x]

Runs == {1, 2}

NoProbe == [status |-> "none", out |-> <<>>]

\* the values of the variables a specification does not use
IdleMain ==
    /\ pc = "Idle" /\ env = EmptyMap /\ argInput = <<>> /\ inputFile = <<>>
    /\ outFolder = <<>> /\ probe = NoProbe /\ fps = -1 /\ segments = <<>>
    /\ converted = "unset" /\ exitCode = -1 /\ cause = "" /\ invoked = {} /\ wrote = {}
    /\ entries0 = EmptyMap /\ files0 = EmptyMap

IdleTs == tsPc = "idle" /\ tsIn = 0 /\ tsOut = <<>>

IdleRace == rpc = EmptyMap /\ rnext = EmptyMap /\ rslot = EmptyMap /\ rwrote = EmptyMap

(***************************************************************************)
(* The worlds a run can start in.                                          *)
(***************************************************************************)
MediaText == <<"media">>

DownloadText == <<"download">>

StaleText == <<"stale fcpxml">>

FcpxmlText == <<"fcpxml">>

OldText == <<"earlier run">>

D001 == <<"0", "0", "1">>

D002 == <<"0", "0", "2">>

D005 == <<"0", "0", "5">>

D999 == <<"9", "9", "9">>

D1000 == <<"1", "0", "0", "0">>

AllDirs(S) == [d \in S |-> "dir"]

\* listings of the base directory; an absent base directory lists nothing
InitListings ==
    { EmptyMap,
      AllDirs({D001, D002, D005}),
      AllDirs({<<"abc">>, <<"0", "0", "0", "1">>}),
      AllDirs({D001, <<"abc">>, <<"0", "0", "0", "1">>, <<"0", "1">>}),
      AllDirs({<<"0", "0", "5", NL>>}),
      AllDirs({D999}),
      AllDirs({D999, D1000}),
      Put(AllDirs({D999}), D1000, "file") }

SlotDir(name) == Join(OutputBase, name)

\* what the earlier run that made directory d left in it
OldSlotFiles(d) ==
    [q \in {Join(SlotDir(d), n) : n \in {FramerateTxt, SubtitlesSrt, SubtitlesFcpxml}}
        |-> OldText]

Merge(f, g) == [q \in DOMAIN f \cup DOMAIN g |-> IF q \in DOMAIN g THEN g[q] ELSE f[q]]

\* the files under a listing: directory 1000, when there, holds an earlier run
BaseFiles(L) ==
    IF D1000 \in DOMAIN L /\ L[D1000] = "dir" THEN OldSlotFiles(D1000) ELSE EmptyMap

LocalInputs ==
    { <<"clip.mp4">>, FramerateTxt, SubtitlesSrt, SubtitlesFcpxml,
      <<"youtube.com", ".mp4">>, Join(SlotDir(D1000), <<"clip.mp4">>) }

UrlInputs == { <<"https://", "youtube.com", "/watch">>, <<"https://", "youtu.be", "/x">> }

Inputs == LocalInputs \cup UrlInputs

\* the directory of path p exists under listing L
DirExists(L, p) ==
    \/ Dirname(p) = <<>>
    \/ \E d \in DOMAIN L : L[d] = "dir" /\ Dirname(p) = SlotDir(d)

(***************************************************************************)
(* main(): one run of the pipeline.                                        *)
(***************************************************************************)
otherVars == <<tsVars, calls, raceVars>>

Init ==
    /\ pc = "Init"
    /\ env \in [ffmpeg : BOOLEAN, ffprobe : BOOLEAN, yt_dlp : BOOLEAN]
    /\ argInput \in Inputs
    /\ entries \in InitListings
    /\ \E present \in BOOLEAN, stale \in BOOLEAN :
          /\ present => argInput \in LocalInputs /\ DirExists(entries, argInput)
          /\ files = Merge(Merge(BaseFiles(entries),
                                 IF stale THEN Put(EmptyMap, SubtitlesFcpxml, StaleText)
                                 ELSE EmptyMap),
                           IF present THEN Put(EmptyMap, argInput, MediaText)
                           ELSE EmptyMap)
    /\ inputFile = <<>> /\ outFolder = <<>> /\ probe = NoProbe /\ fps = -1
    /\ segments = <<>> /\ converted = "unset" /\ exitCode = -1 /\ cause = "" /\ invoked = {} /\ wrote = {}
    /\ entries0 = entries /\ files0 = files
    /\ IdleTs /\ calls = <<>> /\ IdleRace

\* sys.exit(1), or an exception that nothing catches
Abort(why) == pc' = "Aborted" /\ exitCode' = 1 /\ cause' = why

\* check_ffmpeg without its sys.exit(1)
CheckFfmpegNoExit ==
    /\ pc = "Init"
    /\ pc' = "Acquiring"
    /\ UNCHANGED <<env, argInput, inputFile, outFolder, probe, fps, segments, converted,
                   exitCode, cause, invoked, wrote, entries0, files0, fsVars, otherVars>>

\* check_ffmpeg
CheckFfmpeg ==
    /\ pc = "Init"
    /\ IF ~env.ffmpeg \/ ~env.ffprobe
       THEN Abort("ffmpeg or ffprobe not found")
       ELSE pc' = "Acquiring" /\ UNCHANGED <<exitCode, cause>>
    /\ UNCHANGED <<env, argInput, inputFile, outFolder, probe, fps, segments, converted,
                   invoked, wrote, entries0, files0, fsVars, otherVars>>

DownloadPath == Join(<<"temp_dl">>, <<"video.mp4">>)

\* download_youtube
AcquireRemote ==
    /\ pc = "Acquiring"
    /\ IsYoutubeUrl(argInput)
    /\ IF ~env.yt_dlp
       THEN /\ Abort("yt-dlp not installed")
            /\ UNCHANGED <<inputFile, invoked, wrote, files>>
       ELSE /\ invoked' = invoked \cup {<<"yt_dlp">> \o argInput}
            /\ \/ /\ files' = Put(files, DownloadPath, DownloadText)
                  /\ wrote' = wrote \cup {DownloadPath}
                  /\ inputFile' = DownloadPath
                  /\ pc' = "Acquired"
                  /\ UNCHANGED <<exitCode, cause>>
               \/ /\ Abort("download raised")
                  /\ UNCHANGED <<inputFile, wrote, files>>
    /\ UNCHANGED <<env, argInput, outFolder, probe, fps, segments, converted,
                   entries0, files0, entries, otherVars>>

\* os.path.isfile(input_path)
AcquireLocal ==
    /\ pc = "Acquiring"
    /\ ~IsYoutubeUrl(argInput)
    /\ IF argInput \notin DOMAIN files
       THEN Abort("input file not found") /\ UNCHANGED inputFile
       ELSE pc' = "Acquired" /\ inputFile' = argInput /\ UNCHANGED <<exitCode, cause>>
    /\ UNCHANGED <<env, argInput, outFolder, probe, fps, segments, converted,
                   invoked, wrote, entries0, files0, fsVars, otherVars>>

\* out_folder = next_output_folder()
AllocateSlot ==
    /\ pc = "Acquired"
    /\ LET name == FolderName(DOMAIN entries)
       IN  IF MakedirsRaises(entries, name)
           THEN Abort("makedirs raised") /\ UNCHANGED <<entries, outFolder>>
           ELSE /\ entries' = Makedirs(entries, name)
                /\ outFolder' = SlotDir(name)
                /\ pc' = "SlotCreated"
                /\ UNCHANGED <<exitCode, cause>>
    /\ UNCHANGED <<env, argInput, inputFile, probe, fps, segments, converted,
                   invoked, wrote, entries0, files0, files, otherVars>>

\* shutil.move(input_file, dest_media_path), unless they coincide
MoveMedia ==
    /\ pc = "SlotCreated"
    /\ LET dest == Join(outFolder, Basename(inputFile))
       IN  IF dest # inputFile
           THEN /\ files' = MoveFile(files, inputFile, dest)
                /\ wrote' = wrote \cup {dest}
                /\ inputFile' = dest
           ELSE UNCHANGED <<files, wrote, inputFile>>
    /\ pc' = "SlotAllocated"
    /\ UNCHANGED <<env, argInput, outFolder, probe, fps, segments, converted, exitCode,
                   cause, invoked, entries0, files0, entries, otherVars>>

Text(s) == [status |-> "ok", out |-> s]

\* what the probe does in a run of the whole pipeline
ProbeSample ==
    { [status |-> "nostart", out |-> <<>>],
      [status |-> "error", out |-> <<>>],
      Text(<<"3", "0", "0", "0", "0", "/", "1", "0", "0", "1", NL>>),
      Text(<<"2", "5", "/", "1", NL>>),
      Text(<<"0", "/", "0", NL>>),
      Text(<<>>) }

\* fps = detect_fps(input_file), with the probe's outcome drawn from outcomes
DetectFpsFrom(outcomes) ==
    /\ pc = "SlotAllocated"
    /\ \E outcome \in outcomes, tie \in {0, 1} :
          probe' = outcome /\ fps' = DetectFps(outcome, tie)
    /\ invoked' = invoked \cup {<<"ffprobe">> \o inputFile}
    /\ pc' = "FpsDetected"
    /\ UNCHANGED <<env, argInput, inputFile, outFolder, segments, converted, exitCode,
                   cause, wrote, entries0, files0, fsVars, otherVars>>

DetectFpsStep == DetectFpsFrom(ProbeSample)

\* f.write(str(fps)) into framerate.txt
WriteFramerate ==
    /\ pc = "FpsDetected"
    /\ files' = Put(files, Join(outFolder, FramerateTxt), FloatStr(fps))
    /\ wrote' = wrote \cup {Join(outFolder, FramerateTxt)}
    /\ pc' = "Transcribing"
    /\ UNCHANGED <<env, argInput, inputFile, outFolder, probe, fps, segments, converted,
                   exitCode, cause, invoked, entries0, files0, entries, otherVars>>

Sec(n) == n * TicksPerSec

HalfSec == TicksPerSec \div 2

\* what model.transcribe can return as result["segments"]
SegChoices ==
    { <<>>,
      << [start |-> 0, end |-> Sec(1) + HalfSec, text |-> <<"Hello">>],
         [start |-> Sec(1) + HalfSec, end |-> Sec(3), text |-> <<"World", " ", " ">>] >>,
      << [start |-> Sec(3725) + 4567 * (SubMs \div 10), end |-> Sec(3726)] >> }

\* the transcription step without its stop on no segments
TranscribeNoExit ==
    /\ pc = "Transcribing"
    /\ invoked' = invoked \cup {<<"whisper">> \o inputFile}
    /\ \E result \in SegChoices : segments' = result
    /\ pc' = "Transcribed"
    /\ UNCHANGED <<env, argInput, inputFile, outFolder, probe, fps, converted, exitCode,
                   cause, wrote, entries0, files0, fsVars, otherVars>>

\* import torch, whisper; load the model; transcribe; stop on no segments
Transcribe ==
    /\ pc = "Transcribing"
    /\ \/ Abort("import raised") /\ UNCHANGED <<segments, invoked>>
       \/ /\ invoked' = invoked \cup {<<"whisper">> \o inputFile}
          /\ \/ Abort("transcribe raised") /\ UNCHANGED segments
             \/ \E result \in SegChoices :
                   IF result = <<>>
                   THEN Abort("No segments found!") /\ UNCHANGED segments
                   ELSE /\ segments' = result
                        /\ pc' = "Transcribed"
                        /\ UNCHANGED <<exitCode, cause>>
    /\ UNCHANGED <<env, argInput, inputFile, outFolder, probe, fps, converted,
                   wrote, entries0, files0, fsVars, otherVars>>

\* write_srt(segments, srt_path)
WriteSrtStep ==
    /\ pc = "Transcribed"
    /\ \E tie \in {0, 1} :
          files' = Put(files, Join(outFolder, SubtitlesSrt), WriteSrt(segments, tie))
    /\ wrote' = wrote \cup {Join(outFolder, SubtitlesSrt)}
    /\ pc' = "SubtitlesWritten"
    /\ UNCHANGED <<env, argInput, inputFile, outFolder, probe, fps, segments, converted,
                   exitCode, cause, invoked, entries0, files0, entries, otherVars>>

\* cmd = ["srt2subtitles", srt_path, str(int(fps))]
ConvertCmd == <<"srt2subtitles", " ">> \o Join(outFolder, SubtitlesSrt) \o <<" ">> \o IntStr(fps)

\* converted = run_node_srt2subtitles(srt_path, fps, out_folder); the tool
\* cannot be started, exits nonzero, or exits zero with or without its file
\* in the working directory
Convert ==
    /\ pc = "SubtitlesWritten"
    /\ \/ /\ Abort("srt2subtitles could not be started")
          /\ UNCHANGED <<converted, invoked, files, wrote>>
       \/ /\ invoked' = invoked \cup {ConvertCmd}
          /\ \/ /\ converted' = "None"
                /\ UNCHANGED <<files, wrote>>
             \/ /\ converted' = "subtitles.fcpxml"
                /\ files' = Put(files, SubtitlesFcpxml, FcpxmlText)
                /\ wrote' = wrote \cup {SubtitlesFcpxml}
             \/ /\ converted' = "subtitles.fcpxml"
                /\ UNCHANGED <<files, wrote>>
          /\ pc' = "Finalizing"
          /\ UNCHANGED <<exitCode, cause>>
    /\ UNCHANGED <<env, argInput, inputFile, outFolder, probe, fps, segments,
                   entries0, files0, entries, otherVars>>

FcpxSrc == SubtitlesFcpxml

FcpxDest == Join(outFolder, SubtitlesFcpxml)

\* the search for subtitles.fcpxml in the working directory, then in out_folder
Finalize ==
    /\ pc = "Finalizing"
    /\ \/ /\ FcpxSrc \in DOMAIN files
          /\ files' = MoveFile(files, FcpxSrc, FcpxDest)
          /\ wrote' = wrote \cup {FcpxDest}
       \/ /\ FcpxSrc \notin DOMAIN files
          /\ FcpxDest \in DOMAIN files
          /\ UNCHANGED <<files, wrote>>
       \/ /\ FcpxSrc \notin DOMAIN files
          /\ FcpxDest \notin DOMAIN files
          /\ UNCHANGED <<files, wrote>>
    /\ pc' = "Done"
    /\ exitCode' = 0
    /\ UNCHANGED <<env, argInput, inputFile, outFolder, probe, fps, segments, converted,
                   cause, invoked, entries0, files0, entries, otherVars>>

Next ==
    \/ CheckFfmpeg
    \/ AcquireRemote
    \/ AcquireLocal
    \/ AllocateSlot
    \/ MoveMedia
    \/ DetectFpsStep
    \/ WriteFramerate
    \/ Transcribe
    \/ WriteSrtStep
    \/ Convert
    \/ Finalize

Spec == Init /\ [][Next]_vars

(***************************************************************************)
(* Properties of one run of the pipeline (specification Spec).             *)
(***************************************************************************)
SrtPath == Join(outFolder, SubtitlesSrt)

FrameratePath == Join(outFolder, FramerateTxt)

\* subtitles.srt in the slot directory holds the cues of this run's segments
SrtWritten ==
    /\ outFolder # <<>>
    /\ segments # <<>>
    /\ SrtPath \in DOMAIN files
    /\ \E tie \in {0, 1} : files[SrtPath] = WriteSrt(segments, tie)

ConverterInvoked == \E c \in invoked : c[1] = "srt2subtitles"

\* C4: once subtitles.srt has been written the run is never aborted, whatever
\* the conversion step does, and a run that ends has exit code 0.
C4_ConversionNeverAborts ==
    SrtWritten => pc # "Aborted" /\ exitCode \in {-1, 0}

\* the conditions that end a run before a slot is allocated
FatalBeforeSlot ==
    \/ ~env.ffmpeg
    \/ ~env.ffprobe
    \/ ~IsYoutubeUrl(argInput) /\ argInput \notin DOMAIN files0
    \/ IsYoutubeUrl(argInput) /\ ~env.yt_dlp

\* C8: under a fatal condition detected before slot allocation the run never
\* gets past acquisition, ends with exit code 1, runs no collaborator, and
\* leaves the base directory and every file as they were.
C8_FatalBeforeSlotChangesNothing ==
    FatalBeforeSlot =>
        /\ pc \in {"Init", "Acquiring", "Aborted"}
        /\ pc = "Acquiring" => env.ffmpeg /\ env.ffprobe
        /\ pc = "Aborted" => exitCode = 1 /\ ~ENABLED Next
        /\ pc # "Aborted" => exitCode = -1
        /\ entries = entries0
        /\ files = files0
        /\ outFolder = <<>>
        /\ invoked = {}

C8_Witness ==
    /\ pc = "Aborted"
    /\ env.ffmpeg /\ env.ffprobe
    /\ ~IsYoutubeUrl(argInput) /\ argInput \notin DOMAIN files0
    /\ entries0 # EmptyMap

\* C5: when transcription returns no segments the run is aborted with exit
\* code 1 and nothing further runs: no step past transcription ever holds an
\* empty segment list, subtitles.srt does not get this run's cues, the
\* converter is not invoked, and the relocated media file and framerate.txt
\* stay in the slot directory.
C5_NoSegmentsAborts ==
    /\ pc \in {"Transcribed", "SubtitlesWritten", "Finalizing", "Done"} => segments # <<>>
    /\ pc = "Aborted" /\ cause = "No segments found!" =>
          /\ exitCode = 1
          /\ ~ENABLED Next
          /\ ~SrtWritten
          /\ \A segs \in SegChoices, tie \in {0, 1} :
                SrtPath \in DOMAIN files => files[SrtPath] # WriteSrt(segs, tie)
          /\ ~ConverterInvoked
          /\ inputFile \in DOMAIN files /\ Dirname(inputFile) = outFolder
          /\ FrameratePath \in DOMAIN files /\ files[FrameratePath] = FloatStr(fps)
          /\ \A p \in DOMAIN files0 : p \in DOMAIN files \/ p = argInput

C5_Witness ==
    /\ pc = "Aborted" /\ cause = "No segments found!"
    /\ files[inputFile] = MediaText
    /\ FrameratePath # inputFile

\* a valid local media file, and every collaborator doing its work
AllWorking ==
    /\ env.ffmpeg /\ env.ffprobe
    /\ ~IsYoutubeUrl(argInput) /\ argInput \in DOMAIN files0
    /\ probe.status = "ok"
    /\ segments # <<>>
    /\ converted = "subtitles.fcpxml" /\ SubtitlesFcpxml \in wrote

ArtifactPaths ==
    {Join(outFolder, Basename(argInput)), FrameratePath, SrtPath, FcpxDest}

\* C6: a run on a valid local media file with working collaborators that
\* reaches Done has exit code 0, has created exactly one new directory, which
\* holds the media file, framerate.txt, subtitles.srt and subtitles.fcpxml as
\* four distinct files, and leaves nothing it wrote outside that directory.
C6_AllFourArtifacts ==
    pc = "Done" /\ AllWorking =>
        /\ exitCode = 0
        /\ \E d \in DOMAIN entries \ DOMAIN entries0 :
              /\ DOMAIN entries \ DOMAIN entries0 = {d}
              /\ outFolder = SlotDir(d)
        /\ Cardinality(ArtifactPaths) = 4
        /\ ArtifactPaths \subseteq DOMAIN files
        /\ files[Join(outFolder, Basename(argInput))] = MediaText
        /\ files[FrameratePath] = FloatStr(fps)
        /\ SrtWritten
        /\ files[FcpxDest] = FcpxmlText
        /\ \A p \in wrote : p \in DOMAIN files => Dirname(p) = outFolder

\* C9: when the conversion tool exits nonzero the invoker returns None and
\* the run ends at Done with no subtitles.fcpxml in the slot directory.
C9_FailedConversionLeavesNoFcpxml ==
    pc = "Done" /\ converted = "None" => FcpxDest \notin DOMAIN files

(***************************************************************************)
(* format_timestamp on its own (specification SpecTs): the argument is     *)
(* drawn from the offsets below and the function is applied to it.         *)
(***************************************************************************)
MsSamples == {0, 456, 500, 999}

TsInputs ==
    {w * TicksPerSec + m * SubMs + u : w \in 0..MaxSec, m \in MsSamples, u \in 0..(SubMs - 1)}
        \cup {-1, -SubMs, -5 * TicksPerSec, -5 * TicksPerSec - 1}

InitTs ==
    /\ IdleMain /\ entries = EmptyMap /\ files = EmptyMap /\ calls = <<>> /\ IdleRace
    /\ tsPc = "in"
    /\ tsIn \in TsInputs
    /\ tsOut = <<>>

FormatTimestampStep ==
    /\ tsPc = "in"
    /\ \E tie \in {0, 1} : tsOut' = FormatTimestamp(tsIn, tie)
    /\ tsPc' = "out"
    /\ UNCHANGED <<tsIn, mainVars, fsVars, calls, raceVars>>

NextTs == FormatTimestampStep

SpecTs == InitTs /\ [][NextTs]_vars

\* the fields of a timestamp: what stands before and after the comma, the
\* former cut at its colons
MsField(ts) == Split(ts, ",")[2]

HmsFields(ts) == Split(Split(ts, ",")[1], ":")

Zero == <<"0", "0", ":", "0", "0", ":", "0", "0", ",", "0", "0", "0">>

\* C3: format_timestamp returns HH:MM:SS,mmm with a millisecond field of
\* exactly 3 digits in 0..999 and minute and second fields of exactly 2 digits
\* in 0..59; the fraction is rounded to the nearest millisecond; a negative
\* argument gives 00:00:00,000.
C3_FixedWidthTimestamp ==
    tsPc = "out" =>
        /\ Len(Split(tsOut, ",")) = 2
        /\ Len(HmsFields(tsOut)) = 3
        /\ \A f \in {MsField(tsOut)} \cup {HmsFields(tsOut)[i] : i \in 1..3} : AllDigits(f)
        /\ Len(MsField(tsOut)) = 3
        /\ DigitsValue(MsField(tsOut)) \in 0..999
        /\ Len(HmsFields(tsOut)[2]) = 2 /\ DigitsValue(HmsFields(tsOut)[2]) \in 0..59
        /\ Len(HmsFields(tsOut)[3]) = 2 /\ DigitsValue(HmsFields(tsOut)[3]) \in 0..59
        /\ Len(HmsFields(tsOut)[1]) >= 2
        /\ tsIn < 0 => tsOut = Zero
        /\ tsIn >= 0 =>
              LET d == DigitsValue(MsField(tsOut)) * SubMs - (tsIn % TicksPerSec)
              IN  2 * d <= SubMs /\ 2 * d >= -SubMs

(***************************************************************************)
(* next_output_folder on its own (specification SpecAlloc): consecutive    *)
(* runs allocate in one base directory, from which nothing is deleted.     *)
(***************************************************************************)
NameUniverse ==
    { D001, D002, D005, <<"9", "9", "8">>, D999, D1000, <<"0", "0", "0">>,
      <<"abc">>, <<"0", "0", "0", "1">>, <<"0", "1">>, <<"0", "0", "5", NL>> }

InitAlloc ==
    /\ IdleMain /\ IdleTs /\ IdleRace /\ files = EmptyMap
    /\ \E S \in SUBSET NameUniverse, f \in BOOLEAN :
          entries = [d \in S |-> IF d = D1000 /\ f THEN "file" ELSE "dir"]
    /\ calls = <<>>

\* one run's call of next_output_folder
AllocCall ==
    /\ Len(calls) < MaxCalls
    /\ LET name == FolderName(DOMAIN entries)
       IN  /\ calls' = Append(calls, [before |-> DOMAIN entries, name |-> name,
                                      raised |-> MakedirsRaises(entries, name)])
           /\ entries' = IF MakedirsRaises(entries, name) THEN entries
                         ELSE Makedirs(entries, name)
    /\ UNCHANGED <<files, mainVars, tsVars, raceVars>>

NextAlloc == AllocCall

SpecAlloc == InitAlloc /\ [][NextAlloc]_vars

\* C1: every call that returns gives a directory that did not exist before
\* the call, and no two calls give the same directory.
C1_SlotNeverReused ==
    \A i \in 1..Len(calls) :
        ~calls[i].raised =>
            /\ calls[i].name \notin calls[i].before
            /\ \A j \in 1..(i - 1) : ~calls[j].raised => calls[j].name # calls[i].name

\* the entries whose name is exactly three decimal digits
Exact3(listing) == {d \in listing : Len(d) = 3 /\ AllDigits(d)}

ExpectedNum(listing) ==
    IF Exact3(listing) = {} THEN 1
    ELSE SetMax({DigitsValue(d) : d \in Exact3(listing)}) + 1

\* C2: the allocated slot is numbered one more than the largest entry whose
\* name is exactly three decimal digits (1 when there is none), whatever other
\* entries there are, and its name is that number zero-padded to 3 digits.
C2_NextSlotIsMaxPlusOne ==
    \A i \in 1..Len(calls) :
        /\ AllDigits(calls[i].name)
        /\ DigitsValue(calls[i].name) = ExpectedNum(calls[i].before)
        /\ Len(calls[i].name) >= 3
        /\ Len(calls[i].name) > 3 => calls[i].name[1] # "0"

(***************************************************************************)
(* detect_fps and the framerate.txt step on their own (specification       *)
(* SpecFps): a run that has allocated slot 001 of an empty base directory  *)
(* and moved clip.mp4 into it, with every output the probe can print over  *)
(* a small alphabet.                                                       *)
(***************************************************************************)
\* longest probe output drawn from the alphabet
MaxOutLen == 4

ProbeAlphabet == {"0", "1", "3", "/", ".", " ", "x"}

RECURSIVE TextsUpTo(_)
TextsUpTo(n) ==
    IF n = 0 THEN {<<>>}
    ELSE LET shorter == TextsUpTo(n - 1)
         IN  shorter \cup {Append(t, c) : t \in shorter, c \in ProbeAlphabet}

ProbeTexts ==
    TextsUpTo(MaxOutLen)
        \cup { <<"3", "0", "0", "0", "0", "/", "1", "0", "0", "1", NL>>,
               <<"2", "4", "0", "0", "0", "/", "1", "0", "0", "1", NL>>,
               <<"2", "9", ".", "9", "7", NL>>,
               <<"2", "5", "/", "1", NL>>,
               <<"1", "/", "1", "6", NL>>,
               <<"0", "/", "0", NL>>,
               <<"N", "/", "A", NL>>,
               <<NL>> }

ProbeOutcomes ==
    {[status |-> "nostart", out |-> <<>>], [status |-> "error", out |-> <<>>]}
        \cup {Text(t) : t \in ProbeTexts}

ClipMp4 == <<"clip.mp4">>

InitFps ==
    /\ pc = "SlotAllocated"
    /\ env = [ffmpeg |-> TRUE, ffprobe |-> TRUE, yt_dlp |-> TRUE]
    /\ argInput = ClipMp4
    /\ entries0 = EmptyMap
    /\ files0 = Put(EmptyMap, ClipMp4, MediaText)
    /\ entries = Makedirs(EmptyMap, D001)
    /\ outFolder = SlotDir(D001)
    /\ inputFile = Join(SlotDir(D001), ClipMp4)
    /\ files = Put(EmptyMap, inputFile, MediaText)
    /\ wrote = {inputFile}
    /\ probe = NoProbe /\ fps = -1 /\ segments = <<>> /\ converted = "unset"
    /\ exitCode = -1 /\ cause = "" /\ invoked = {}
    /\ IdleTs /\ calls = <<>> /\ IdleRace

DetectFpsAny == DetectFpsFrom(ProbeOutcomes)

NextFps == DetectFpsAny \/ WriteFramerate

SpecFps == InitFps /\ [][NextFps]_vars

\* a non-empty run of digits
IsNumber(t) == Len(t) > 0 /\ AllDigits(t)

\* v is x / y in units of 10^-3, rounded to the nearest
NearestMilli(v, x, y) ==
    2 * (v * y - x * FpsUnit) <= y /\ 2 * (v * y - x * FpsUnit) >= -y

\* what the claim says of the value returned for the probe's outcome
FpsAsClaimed(outcome, v) ==
    LET t == Strip(outcome.out)
    IN  /\ outcome.status # "ok" => v = Fallback
        /\ outcome.status = "ok" =>
              /\ t = <<>> => v = Fallback
              /\ (\E i \in 1..Len(t) : t[i] \notin Digits \cup {".", "/", " ", NL})
                     => v = Fallback
              /\ \A i \in 2..(Len(t) - 1) :
                    t[i] = "/" /\ IsNumber(SubSeq(t, 1, i - 1))
                               /\ IsNumber(SubSeq(t, i + 1, Len(t)))
                    => IF DigitsValue(SubSeq(t, i + 1, Len(t))) = 0
                       THEN v = Fallback
                       ELSE NearestMilli(v, DigitsValue(SubSeq(t, 1, i - 1)),
                                         DigitsValue(SubSeq(t, i + 1, Len(t))))
              /\ IsNumber(t) => v = DigitsValue(t) * FpsUnit
              /\ \A i \in 2..(Len(t) - 1) :
                    t[i] = "." /\ IsNumber(SubSeq(t, 1, i - 1))
                               /\ IsNumber(SubSeq(t, i + 1, Len(t)))
                    => NearestMilli(v, DigitsValue(SubSeq(t, 1, i - 1)) * Pow10(Len(t) - i)
                                           + DigitsValue(SubSeq(t, i + 1, Len(t))),
                                    Pow10(Len(t) - i))
        /\ v >= 0

\* C7: whatever the probe does, detect_fps returns a number and the run goes
\* on to write it to framerate.txt: 24.0 when the probe cannot be started,
\* exits with an error, prints nothing, prints something unparsable or a
\* rational with a zero denominator; the value rounded to 3 decimal places
\* when it prints a rational num/den or a plain decimal.
C7_DetectFpsNeverRaises ==
    /\ pc \in {"SlotAllocated", "FpsDetected", "Transcribing"}
    /\ exitCode = -1
    /\ pc = "SlotAllocated" <=> probe = NoProbe
    /\ probe # NoProbe => FpsAsClaimed(probe, fps)
    /\ pc = "FpsDetected" => ENABLED WriteFramerate
    /\ pc = "Transcribing" =>
          FrameratePath \in DOMAIN files /\ files[FrameratePath] = FloatStr(fps)

C7_Witness ==
    /\ pc = "Transcribing"
    /\ probe = Text(<<"3", "0", "0", "0", "0", "/", "1", "0", "0", "1", NL>>)
    /\ fps = 29970
    /\ files[FrameratePath] = <<"2", "9", ".", "9", "7">>

(***************************************************************************)
(* Two runs started at once in one working directory (specification        *)
(* SpecRace): each goes through lines 160-197 of main() with its own media *)
(* file; a step is one call on the file system.                            *)
(***************************************************************************)
RunInput(p) == IF p = 1 THEN <<"a.mp4">> ELSE <<"b.mp4">>

RunSegments(p) ==
    IF p = 1 THEN << [start |-> 0, end |-> Sec(1), text |-> <<"one">>] >>
    ELSE << [start |-> 0, end |-> Sec(2), text |-> <<"two">>] >>

RaceFps == {Fallback, 29970}

RaceListings == {EmptyMap, AllDirs({D001, D002, D005}), AllDirs({<<"abc">>}), AllDirs({D999})}

InitRace ==
    /\ IdleMain /\ IdleTs /\ calls = <<>>
    /\ entries \in RaceListings
    /\ files = [q \in {RunInput(p) : p \in Runs} |-> MediaText]
    /\ rpc = [p \in Runs |-> "start"]
    /\ rnext = [p \in Runs |-> 0]
    /\ rslot = [p \in Runs |-> <<>>]
    /\ rwrote = [p \in Runs |-> {}]

raceRest == <<mainVars, tsVars, calls>>

\* os.listdir(base) and the number computed from it
RScan(p) ==
    /\ rpc[p] = "start"
    /\ rnext' = [rnext EXCEPT ![p] = NextNum(DOMAIN entries)]
    /\ rpc' = [rpc EXCEPT ![p] = "scanned"]
    /\ UNCHANGED <<rslot, rwrote, fsVars, raceRest>>

\* os.makedirs(out_path, exist_ok=True)
RCreate(p) ==
    /\ rpc[p] = "scanned"
    /\ LET name == Pad(rnext[p], 3)
       IN  IF MakedirsRaises(entries, name)
           THEN /\ rpc' = [rpc EXCEPT ![p] = "raised"]
                /\ UNCHANGED <<entries, rslot>>
           ELSE /\ entries' = Makedirs(entries, name)
                /\ rslot' = [rslot EXCEPT ![p] = SlotDir(name)]
                /\ rpc' = [rpc EXCEPT ![p] = "created"]
    /\ UNCHANGED <<rnext, rwrote, files, raceRest>>

\* shutil.move(input_file, dest_media_path)
RMove(p) ==
    /\ rpc[p] = "created"
    /\ LET dest == Join(rslot[p], Basename(RunInput(p)))
       IN  /\ files' = MoveFile(files, RunInput(p), dest)
           /\ rwrote' = [rwrote EXCEPT ![p] = @ \cup {dest}]
    /\ rpc' = [rpc EXCEPT ![p] = "moved"]
    /\ UNCHANGED <<rnext, rslot, entries, raceRest>>

\* detect_fps, then f.write(str(fps)) into framerate.txt
RFramerate(p) ==
    /\ rpc[p] = "moved"
    /\ \E f \in RaceFps : files' = Put(files, Join(rslot[p], FramerateTxt), FloatStr(f))
    /\ rwrote' = [rwrote EXCEPT ![p] = @ \cup {Join(rslot[p], FramerateTxt)}]
    /\ rpc' = [rpc EXCEPT ![p] = "framerate"]
    /\ UNCHANGED <<rnext, rslot, entries, raceRest>>

\* the transcription, then write_srt(segments, srt_path)
RSrt(p) ==
    /\ rpc[p] = "framerate"
    /\ files' = Put(files, Join(rslot[p], SubtitlesSrt), WriteSrt(RunSegments(p), 0))
    /\ rwrote' = [rwrote EXCEPT ![p] = @ \cup {Join(rslot[p], SubtitlesSrt)}]
    /\ rpc' = [rpc EXCEPT ![p] = "srt"]
    /\ UNCHANGED <<rnext, rslot, entries, raceRest>>

NextRace == \E p \in Runs : RScan(p) \/ RCreate(p) \/ RMove(p) \/ RFramerate(p) \/ RSrt(p)

SpecRace == InitRace /\ [][NextRace]_vars

\* C10: nothing locks the allocation: while one run is between its scan and
\* its creation the other can scan, creating a directory that is already
\* there never fails, and two runs that computed the same number are given
\* the same directory, where the later write of framerate.txt and of
\* subtitles.srt replaces the earlier.
C10_NoLockOnAllocation ==
    /\ \A p \in Runs : rpc[p] # "raised"
    /\ \A p, q \in Runs : rpc[p] = "scanned" /\ rpc[q] = "start" => ENABLED RScan(q)
    /\ \A p \in Runs : rpc[p] = "scanned" => ENABLED RCreate(p)
    /\ \A p, q \in Runs :
          rnext[p] = rnext[q] /\ rslot[p] # <<>> /\ rslot[q] # <<>> => rslot[p] = rslot[q]
    /\ \A p, q \in Runs :
          p # q /\ rpc[p] = "srt" /\ rpc[q] = "srt" /\ rslot[p] = rslot[q] =>
              /\ rwrote[p] \cap rwrote[q] = {Join(rslot[p], FramerateTxt), Join(rslot[p], SubtitlesSrt)}
              /\ \E r \in Runs : files[Join(rslot[p], SubtitlesSrt)] = WriteSrt(RunSegments(r), 0)

C10_Witness ==
    /\ rpc[1] = "srt" /\ rpc[2] = "srt"
    /\ rnext[1] = rnext[2]
    /\ rslot[1] = rslot[2]
    /\ Join(rslot[1], FramerateTxt) \in rwrote[1] \cap rwrote[2]
    /\ Join(rslot[1], SubtitlesSrt) \in rwrote[1] \cap rwrote[2]
    /\ DOMAIN entries = {D001}

====
